---- MODULE Spec2Model ----
(***************************************************************************)
(* Model of impactlab_tools/utils/weighting.py: weighted_quantile_1d, its  *)
(* axis-wise generalisation weighted_quantile and the labelled wrapper     *)
(* weighted_quantile_xr.                                                   *)
(*                                                                         *)
(* Floating point numbers are modelled as exact rationals extended with    *)
(* NaN and the two infinities, so that the divisions of lines 212 and 216  *)
(* by a zero total behave as numpy's do (0/0 = NaN, no exception).         *)
(* Arrays are 1-based sequences; an index of the source is the model's     *)
(* index minus one.  None is modelled as the empty tuple (empty weight     *)
(* arrays are outside the input domain).                                   *)
(***************************************************************************)
EXTENDS Integers, Sequences, FiniteSets

\* ---------------------------------------------------------------- bounds
\* longest value array of a call to weighted_quantile_1d
MaxLen == 3

\* the requested quantiles are the multiples of 1/QDen from -1/QDen to 1 + 1/QDen
QDen == 2

\* the values and the weights an input array is made of
ValueDomain == 0..2

WeightDomain == 0..2

\* ------------------------------------------------------- extended rationals
Abs(x) == IF x < 0 THEN -x ELSE x

Sign(x) == IF x < 0 THEN -1 ELSE IF x > 0 THEN 1 ELSE 0

RECURSIVE GCD(_, _)
GCD(a, b) == IF b = 0 THEN a ELSE GCD(b, a % b)

\* [n, d] with d > 0 in lowest terms is n/d; d = 0 is NaN (n = 0) or +-inf.
Norm(n, d) ==
    IF d = 0 THEN [n |-> Sign(n), d |-> 0]
    ELSE LET s == Sign(d)
             g == GCD(Abs(n), Abs(d))
         IN  [n |-> (s * n) \div g, d |-> (s * d) \div g]

NaN == [n |-> 0, d |-> 0]

IsNaN(a) == a.d = 0 /\ a.n = 0

FromInt(i) == [n |-> i, d |-> 1]

Half == [n |-> 1, d |-> 2]

RatMul(a, b) == Norm(a.n * b.n, a.d * b.d)

RatAdd(a, b) ==
    IF a.d = 0 /\ b.d = 0
    THEN (IF a.n = b.n THEN a ELSE NaN)
    ELSE Norm(a.n * b.d + b.n * a.d, a.d * b.d)

RatNeg(a) == [n |-> -a.n, d |-> a.d]

RatSub(a, b) == RatAdd(a, RatNeg(b))

RatDiv(a, b) == Norm(a.n * b.d * (IF b.n < 0 THEN -1 ELSE 1), a.d * Abs(b.n))

\* IEEE comparisons: every comparison with a NaN is false.
RatLt(a, b) ==
    /\ ~IsNaN(a)
    /\ ~IsNaN(b)
    /\ IF a.d = 0 /\ b.d = 0 THEN a.n < b.n ELSE a.n * b.d < b.n * a.d

RatGt(a, b) == RatLt(b, a)

RatEq(a, b) == ~IsNaN(a) /\ ~IsNaN(b) /\ a = b

RatGe(a, b) == RatGt(a, b) \/ RatEq(a, b)

RatLe(a, b) == RatLt(a, b) \/ RatEq(a, b)

\* ------------------------------------------------------- numpy primitives
Last(s) == s[Len(s)]

\* an array given element by element, as a tuple
Array(f) == SubSeq(f, 1, Len(f))

\* np.ones(n)
Ones(n) == Array([i \in 1..n |-> 1])

\* np.array(values) of integers, as floats
AsFloats(s) == Array([i \in 1..Len(s) |-> FromInt(s[i])])

\* the orderings of the indices in S that put the values of v in ascending
\* order: any index of a least remaining value comes first
RECURSIVE AscendingOrders(_, _)
AscendingOrders(v, S) ==
    IF S = {} THEN {<<>>}
    ELSE UNION {{<< i >> \o p : p \in AscendingOrders(v, S \ {i})} :
                   i \in {i \in S : \A j \in S : v[i] <= v[j]}}

\* np.argsort(values): the index arrays that sort values ascending.  The
\* default kind is not stable, so the order of equal values is the build's.
\* mutation: the values are put in descending order
ArgSorts_Descending(v) ==
    AscendingOrders([i \in 1..Len(v) |-> 0 - v[i]], 1..Len(v))

ArgSorts(v) == AscendingOrders(v, 1..Len(v))

\* a[idx] with an integer index array: IndexError if an index is out of range
IndexInRange(a, idx) == \A i \in 1..Len(idx) : idx[i] \in 1..Len(a)

Take(a, idx) == Array([i \in 1..Len(idx) |-> a[idx[i]]])

RECURSIVE SumTo(_, _)
SumTo(s, i) == IF i = 0 THEN 0 ELSE s[i] + SumTo(s, i - 1)

\* np.sum
Sum(s) == SumTo(s, Len(s))

\* np.cumsum
Cumsum(s) == Array([i \in 1..Len(s) |-> SumTo(s, i)])

\* np.interp's binary_search_with_guess (linear search, len <= 8): the
\* 1-based j with arr[j] <= key < arr[j+1]; 0 below arr[1], len+1 above the last.
RECURSIVE LinearSearch(_, _, _)
LinearSearch(key, arr, i) ==
    IF i <= Len(arr) /\ RatGe(key, arr[i])
    THEN LinearSearch(key, arr, i + 1)
    ELSE i - 1

BinarySearch(key, arr) ==
    IF RatGt(key, Last(arr)) THEN Len(arr) + 1
    ELSE IF RatLt(key, arr[1]) THEN 0
    ELSE LinearSearch(key, arr, 2)

\* np.interp(x, xp, fp) for one x, left = fp[0], right = fp[-1]
InterpOne(x, xp, fp) ==
    IF Len(xp) = 1
    THEN (IF RatLt(x, xp[1]) THEN fp[1]
          ELSE IF RatGt(x, xp[1]) THEN Last(fp)
          ELSE fp[1])
    ELSE LET j == BinarySearch(x, xp)
         IN  IF j = 0 THEN fp[1]
             ELSE IF j >= Len(xp) THEN Last(fp)
             ELSE IF RatEq(xp[j], x) THEN fp[j]
             ELSE LET slope == RatDiv(RatSub(fp[j + 1], fp[j]),
                                      RatSub(xp[j + 1], xp[j]))
                      r1 == RatAdd(RatMul(slope, RatSub(x, xp[j])), fp[j])
                      r2 == RatAdd(RatMul(slope, RatSub(x, xp[j + 1])), fp[j + 1])
                  IN  IF ~IsNaN(r1) THEN r1
                      ELSE IF IsNaN(r2) /\ RatEq(fp[j], fp[j + 1]) THEN fp[j]
                      ELSE r2

Interp(x, xp, fp) == Array([k \in 1..Len(x) |-> InterpOne(x[k], xp, fp)])

\* ------------------------------------------- weighted_quantile_1d, by line
\* a requested quantile qn stands for qn / QDen
Quantile(qn) == Norm(qn, QDen)

\* np.array(quantiles), as floats
Quantiles(q) == Array([k \in 1..Len(q) |-> Quantile(q[k])])

\* line 198: np.all(quantiles >= 0) and np.all(quantiles <= 1)
\* mutation: only the lower end is checked
QuantilesInRange_LowerOnly(q) == \A k \in 1..Len(q) : q[k] >= 0

QuantilesInRange(q) == (\A k \in 1..Len(q) : q[k] >= 0) /\ (\A k \in 1..Len(q) : q[k] <= QDen)

\* line 206: np.cumsum(sample_weight) - 0.5 * sample_weight
MidPoints(w) ==
    LET c == Cumsum(w)
    IN  Array([i \in 1..Len(w) |->
                  RatSub(FromInt(c[i]), RatMul(Half, FromInt(w[i])))])

\* lines 211-212: shift to a first entry of 0, rescale by the shifted last entry
\* mutation: rescaled by the last entry without the shift
NormalizeOldStyle_Unshifted(wq) ==
    Array([i \in 1..Len(wq) |-> RatDiv(wq[i], Last(wq))])

NormalizeOldStyle(wq) ==
    LET first == wq[1]
        shifted == Array([i \in 1..Len(wq) |-> RatSub(wq[i], first)])
        last == Last(shifted)
    IN  Array([i \in 1..Len(wq) |-> RatDiv(shifted[i], last)])

\* line 216: divide by the total weight
\* mutation: divided by the number of observations
NormalizeByTotal_ByCount(wq, w) ==
    Array([i \in 1..Len(wq) |-> RatDiv(wq[i], FromInt(Len(w)))])

NormalizeByTotal(wq, w) ==
    LET total == FromInt(Sum(w))
    IN  Array([i \in 1..Len(wq) |-> RatDiv(wq[i], total)])

Normalize(wq, w, old) ==
    IF old THEN NormalizeOldStyle(wq) ELSE NormalizeByTotal(wq, w)

\* lines 206-218 for given (already ordered) values and weights of one length
QuantilesOf(v, q, w, old) ==
    LET xp == Normalize(MidPoints(w), w, old)
        fp == AsFloats(v)
    IN  Interp(Quantiles(q), xp, fp)

None == <<>>

\* weighted_quantile_1d as one call, for the index array s that np.argsort
\* returns: the exception raised ("" if none) and the array returned
Call1D(v, q, w, vs, old, s) ==
    LET w1 == IF w = None THEN Ones(Len(v)) ELSE w
    IN  IF ~QuantilesInRange(q)
        THEN [error |-> "AssertionError", result |-> <<>>]
        ELSE IF ~vs /\ ~IndexInRange(w1, s)
        THEN [error |-> "IndexError", result |-> <<>>]
        ELSE LET v2 == IF vs THEN v ELSE Take(v, s)
                 w2 == IF vs THEN w1 ELSE Take(w1, s)
             IN  IF Len(w2) # Len(v2)
                 THEN [error |-> "ValueError", result |-> <<>>]
                 ELSE [error |-> "", result |-> QuantilesOf(v2, q, w2, old)]

\* -------------------------------------------------------------- the state
\* An optional argument is None or a one-element tuple: axis = << 0 >>.
VARIABLES
    entry,               \* the function the caller called
    pc,                  \* the next line to run
    error,               \* the exception raised, "" if none
    quantiles,           \* the requested quantiles, as numerators over QDen
    values_sorted,
    old_style,
    \* weighted_quantile_xr
    data,                \* the DataArray: its dims, coords and values
    dim,                 \* the name of the dimension to weight along
    weight_series,       \* the labelled sample_weight: (label, weight) entries
    dims,                \* local (line 56)
    coords,              \* local (lines 57-59)
    data_dist,           \* the DataArray returned (lines 68-70)
    \* weighted_quantile
    nd_values,           \* the array passed as values, of nd_ndim dimensions
    nd_ndim,
    axis,
    inarr_view,          \* np.apply_along_axis: values with axis moved last
    ind,                 \* np.apply_along_axis: the next slice
    buff,                \* np.apply_along_axis: the results per slice
    nd_result,           \* the array weighted_quantile returns
    \* weighted_quantile_1d
    arg_values,          \* the caller's value array (never written)
    arg_weight,          \* the caller's sample_weight, or None
    values,              \* local (lines 189, 203)
    sample_weight,       \* local (lines 193-195, 204)
    sorter,              \* local (line 202)
    weighted_quantiles,  \* local (line 206)
    result               \* local (line 218)

params == << entry, quantiles, values_sorted, old_style >>

vars_xr == << data, dim, weight_series, dims, coords, data_dist >>

vars_nd == << nd_values, nd_ndim, axis, inarr_view, ind, buff, nd_result >>

args_1d == << arg_values, arg_weight >>

vars == << params, pc, error, vars_xr, vars_nd, args_1d, values,
           sample_weight, sorter, weighted_quantiles, result >>

\* ------------------------------------------------------------- the inputs
SeqsUpTo(S, n) == UNION {[1..k -> S] : k \in 1..n}

ValueArrays == SeqsUpTo(ValueDomain, MaxLen)

\* weight arrays of the length of v; positive weights, one fewer or one more
\* than v has values; or no weights
WeightArraysFor(v) ==
    [1..Len(v) -> WeightDomain]
        \cup {w \in SeqsUpTo(WeightDomain \ {0}, MaxLen) :
                  Len(w) \in {Len(v) - 1, Len(v) + 1}}
        \cup {None}

\* the quantiles 0, 1/QDen, ..., 1
QuantileGrid == [k \in 1..(QDen + 1) |-> k - 1]

\* the requested quantiles: the whole grid; one quantile, in range or just out
\* of it; or two of which one is an end point of [0, 1] and the other just
\* beyond the opposite end point
QuantileArrays ==
    { QuantileGrid, << 1 >>, << -1 >>, << QDen + 1 >>,
      << 0, QDen + 1 >>, << QDen + 1, 0 >>, << QDen, -1 >>, << -1, QDen >> }

IsSorted(v) == \A i \in 1..(Len(v) - 1) : v[i] <= v[i + 1]

NoDataArray == [dims |-> <<>>, coords |-> <<>>, values |-> <<>>]

Idle1D ==
    /\ values = <<>>
    /\ sample_weight = <<>>
    /\ sorter = <<>>
    /\ weighted_quantiles = <<>>
    /\ result = <<>>
    /\ error = ""

IdleND ==
    /\ inarr_view = <<>>
    /\ ind = 0
    /\ buff = <<>>
    /\ nd_result = <<>>

IdleXR ==
    /\ data = NoDataArray
    /\ dim = ""
    /\ weight_series = <<>>
    /\ dims = <<>>
    /\ coords = <<>>
    /\ data_dist = NoDataArray

\* a call of weighted_quantile_1d
Init ==
    /\ entry = "weighted_quantile_1d"
    /\ arg_values \in ValueArrays
    /\ arg_weight \in WeightArraysFor(arg_values)
    /\ quantiles \in QuantileArrays
    /\ values_sorted \in BOOLEAN
    /\ old_style \in BOOLEAN
    /\ values_sorted => IsSorted(arg_values)
    /\ pc = "convert"
    /\ Idle1D
    /\ IdleND
    /\ IdleXR
    /\ nd_values = <<>>
    /\ nd_ndim = 0
    /\ axis = None

\* ---------------------------------------------------- weighted_quantile_1d
Raise(e) ==
    /\ pc' = "raised"
    /\ error' = e

\* lines 189-195
Convert ==
    /\ pc = "convert"
    /\ values' = arg_values
    /\ sample_weight' =
           IF arg_weight = None THEN Ones(Len(arg_values)) ELSE arg_weight
    /\ pc' = "assert"
    /\ UNCHANGED << params, vars_xr, vars_nd, args_1d, sorter,
                    weighted_quantiles, result, error >>

\* lines 197-198
AssertQuantiles ==
    /\ pc = "assert"
    /\ IF QuantilesInRange(quantiles)
       THEN pc' = "sort" /\ error' = error
       ELSE Raise("AssertionError")
    /\ UNCHANGED << params, vars_xr, vars_nd, args_1d, values, sample_weight,
                    sorter, weighted_quantiles, result >>

\* lines 200-204
Sort ==
    /\ pc = "sort"
    /\ IF values_sorted
       THEN /\ pc' = "midpoints"
            /\ UNCHANGED << values, sample_weight, sorter, error >>
       ELSE \E s \in ArgSorts(values) :
               /\ sorter' = s
               /\ values' = Take(values, s)
               /\ IF IndexInRange(sample_weight, s)
                  THEN /\ sample_weight' = Take(sample_weight, s)
                       /\ pc' = "midpoints"
                       /\ error' = error
                  ELSE /\ Raise("IndexError")
                       /\ UNCHANGED sample_weight
    /\ UNCHANGED << params, vars_xr, vars_nd, args_1d, weighted_quantiles,
                    result >>

\* line 206
CumulativeMidPoints ==
    /\ pc = "midpoints"
    /\ weighted_quantiles' = MidPoints(sample_weight)
    /\ pc' = "normalize"
    /\ UNCHANGED << params, vars_xr, vars_nd, args_1d, values, sample_weight,
                    sorter, result, error >>

\* lines 208-216
NormalizePositions ==
    /\ pc = "normalize"
    /\ weighted_quantiles' =
           Normalize(weighted_quantiles, sample_weight, old_style)
    /\ pc' = "interp"
    /\ UNCHANGED << params, vars_xr, vars_nd, args_1d, values, sample_weight,
                    sorter, result, error >>

\* lines 218-220; np.interp raises ValueError when xp and fp differ in length
Interpolate ==
    /\ pc = "interp"
    /\ IF Len(weighted_quantiles) = Len(values)
       THEN /\ result' = Interp(Quantiles(quantiles),
                                weighted_quantiles, AsFloats(values))
            /\ pc' = "returned"
            /\ error' = error
       ELSE /\ Raise("ValueError")
            /\ UNCHANGED result
    /\ UNCHANGED << params, vars_xr, vars_nd, args_1d, values, sample_weight,
                    sorter, weighted_quantiles >>

Next ==
    \/ Convert
    \/ AssertQuantiles
    \/ Sort
    \/ CumulativeMidPoints
    \/ NormalizePositions
    \/ Interpolate

Spec == Init /\ [][Next]_vars

\* -------------------------------------------------------- weighted_quantile
Transpose(a) ==
    Array([j \in 1..Len(a[1]) |-> Array([i \in 1..Len(a) |-> a[i][j]])])

\* np.apply_along_axis, for a 2-D arr: transpose(arr, in_dims[:axis] +
\* in_dims[axis+1:] + [axis]) puts the axis to apply along last
MoveAxisLast(arr, ax) == IF ax = 0 THEN Transpose(arr) ELSE arr

\* np.apply_along_axis: transpose(buff, buff_permute) puts the results, which
\* are along the last axis of buff, along the axis applied along
\* mutation: the results stay along the last axis
MoveLastToAxis_Kept(b, ax) == b

MoveLastToAxis(b, ax) == IF ax = 0 THEN Transpose(b) ELSE b

\* line 121, and the call of line 134 or the start of np.apply_along_axis
Dispatch ==
    /\ pc = "dispatch"
    /\ IF nd_ndim > 1 /\ axis # None
       THEN /\ inarr_view' = MoveAxisLast(nd_values, axis[1])
            /\ ind' = 1
            /\ buff' = <<>>
            /\ pc' = "apply"
            /\ UNCHANGED args_1d
       ELSE /\ arg_values' = nd_values
            /\ pc' = "convert"
            /\ UNCHANGED << arg_weight, inarr_view, ind, buff >>
    /\ UNCHANGED << params, vars_xr, nd_values, nd_ndim, axis, nd_result,
                    values, sample_weight, sorter, weighted_quantiles, result,
                    error >>

\* lines 123-130, np.apply_along_axis: buff[ind] = func1d(inarr_view[ind], *args)
ApplySlice ==
    /\ pc = "apply"
    /\ ind <= Len(inarr_view)
    /\ \E s \in ArgSorts(inarr_view[ind]) :
          LET r == Call1D(inarr_view[ind], quantiles, arg_weight,
                          values_sorted, old_style, s)
          IN  IF r.error = ""
              THEN /\ buff' = Append(buff, r.result)
                   /\ ind' = ind + 1
                   /\ UNCHANGED << pc, error >>
              ELSE /\ Raise(r.error)
                   /\ UNCHANGED << buff, ind >>
    /\ UNCHANGED << params, vars_xr, nd_values, nd_ndim, axis, inarr_view,
                    nd_result, args_1d, values, sample_weight, sorter,
                    weighted_quantiles, result >>

\* lines 123-130, np.apply_along_axis: return transpose(buff, buff_permute)
ApplyReturn ==
    /\ pc = "apply"
    /\ ind > Len(inarr_view)
    /\ nd_result' = MoveLastToAxis(buff, axis[1])
    /\ pc' = "nd_returned"
    /\ UNCHANGED << params, vars_xr, nd_values, nd_ndim, axis, inarr_view,
                    ind, buff, args_1d, values, sample_weight, sorter,
                    weighted_quantiles, result, error >>

\* line 134: return what weighted_quantile_1d returned
DirectReturn ==
    /\ pc = "returned"
    /\ entry # "weighted_quantile_1d"
    /\ nd_result' = result
    /\ pc' = "nd_returned"
    /\ UNCHANGED << params, vars_xr, nd_values, nd_ndim, axis, inarr_view,
                    ind, buff, args_1d, values, sample_weight, sorter,
                    weighted_quantiles, result, error >>

\* the arrays of a call of weighted_quantile: 1-D, or 2-D of one or two rows
\* and columns
Arrays1D == SeqsUpTo(ValueDomain, 2)

Arrays2D ==
    UNION {[1..shape[1] -> [1..shape[2] -> ValueDomain]] :
              shape \in {m \in (1..2) \X (1..2) : m[1] * m[2] > 1}}

\* the slices of the 2-D array a along axis ax
Slices(a, ax) == LET v == MoveAxisLast(a, ax) IN {v[i] : i \in 1..Len(v)}

\* one quantile, in range or not, or two in range
QuantileArraysND == { << -1 >>, << 1 >>, << 0, QDen >>, << QDen, 1 >> }

InitND ==
    /\ entry = "weighted_quantile"
    /\ \/ /\ nd_ndim = 1
          /\ nd_values \in Arrays1D
          /\ axis \in {None, << 0 >>}
          /\ values_sorted \in BOOLEAN
          /\ values_sorted => IsSorted(nd_values)
       \/ /\ nd_ndim = 2
          /\ nd_values \in Arrays2D
          /\ axis \in {<< 0 >>, << 1 >>}
          /\ values_sorted \in BOOLEAN
          /\ values_sorted => \A v \in Slices(nd_values, axis[1]) : IsSorted(v)
    /\ arg_weight \in SeqsUpTo(WeightDomain, 2) \cup {None}
    /\ quantiles \in QuantileArraysND
    /\ old_style \in BOOLEAN
    /\ pc = "dispatch"
    /\ arg_values = <<>>
    /\ Idle1D
    /\ IdleND
    /\ IdleXR

NextND ==
    \/ Dispatch
    \/ ApplySlice
    \/ ApplyReturn
    \/ Convert
    \/ AssertQuantiles
    \/ Sort
    \/ CumulativeMidPoints
    \/ NormalizePositions
    \/ Interpolate
    \/ DirectReturn

SpecND == InitND /\ [][NextND]_vars

\* ----------------------------------------------------- weighted_quantile_xr
Range(f) == {f[i] : i \in 1..Len(f)}

\* data.get_axis_num(dim), 0-based
GetAxisNum(d, name) == (CHOOSE i \in 1..Len(d) : d[i] = name) - 1

\* sample_weight.loc[labels].values: the weight of each label, in the order
\* of labels; KeyError if a label has no entry
HasLabels(series, labels) ==
    \A i \in 1..Len(labels) : \E e \in 1..Len(series) : series[e].label = labels[i]

\* mutation: the weights in the order of the series, by position
Loc_Positional(series, labels) ==
    Array([i \in 1..Len(labels) |-> series[i].weight])

Loc(series, labels) ==
    Array([i \in 1..Len(labels) |->
              series[CHOOSE e \in 1..Len(series) :
                         series[e].label = labels[i]].weight])

\* lines 55-66: the arguments of the call of weighted_quantile, and the call
CallWeightedQuantile ==
    /\ pc = "xr_call"
    /\ LET ax == GetAxisNum(data.dims, dim)
           ds == Array([i \in 1..Len(data.dims) |->
                           IF i = ax + 1 THEN "quantile" ELSE data.dims[i]])
       IN  /\ dims' = ds
           /\ coords' = [c \in Range(ds) |->
                            IF c = "quantile" THEN quantiles ELSE data.coords[c]]
           /\ IF HasLabels(weight_series, data.coords[dim])
              THEN /\ nd_values' = data.values
                   /\ nd_ndim' = Len(data.dims)
                   /\ arg_weight' = Loc(weight_series, data.coords[dim])
                   /\ axis' = << ax >>
                   /\ pc' = "dispatch"
                   /\ error' = error
              ELSE /\ Raise("KeyError")
                   /\ UNCHANGED << nd_values, nd_ndim, arg_weight, axis >>
    /\ UNCHANGED << params, data, dim, weight_series, data_dist, inarr_view,
                    ind, buff, nd_result, arg_values, values, sample_weight,
                    sorter, weighted_quantiles, result >>

\* lines 68-70
WrapResult ==
    /\ pc = "nd_returned"
    /\ entry = "weighted_quantile_xr"
    /\ data_dist' = [dims |-> dims, coords |-> coords, values |-> nd_result]
    /\ pc' = "xr_returned"
    /\ UNCHANGED << params, data, dim, weight_series, dims, coords, vars_nd,
                    args_1d, values, sample_weight, sorter,
                    weighted_quantiles, result, error >>

\* the coordinate labels and the values a DataArray is made of
Labels == {"a", "b", "c"}

DataValueDomain == {0, 2}

\* sequences of n different labels
LabelSeqs(n) == {l \in [1..n -> Labels] : \A i, j \in 1..n : l[i] = l[j] => i = j}

\* a DataArray of one dimension x, or of two dimensions x and y, each of
\* length 2, with labels of the caller's choice along the dimension dm
DataArrays(dm) ==
    {[dims |-> << "x" >>, coords |-> [c \in {"x"} |-> l], values |-> v] :
        l \in LabelSeqs(2), v \in [1..2 -> DataValueDomain]}
    \cup
    {[dims |-> << "x", "y" >>,
      coords |-> [c \in {"x", "y"} |-> IF c = dm THEN l ELSE << "p", "q" >>],
      values |-> v] :
        l \in LabelSeqs(2), v \in [1..2 -> [1..2 -> DataValueDomain]]}

\* a labelled weight series: two or three entries, no label twice
WeightSeries ==
    UNION {{[i \in 1..n |-> [label |-> l[i], weight |-> w[i]]] :
               l \in LabelSeqs(n), w \in [1..n -> {1, 2}]} : n \in 2..3}

QuantileArraysXR == { << -1 >>, << 1 >>, << 0, QDen >> }

InitXR ==
    /\ entry = "weighted_quantile_xr"
    /\ dim \in {"x", "y"}
    /\ data \in DataArrays(dim)
    /\ dim \in Range(data.dims)
    /\ weight_series \in WeightSeries
    /\ quantiles \in QuantileArraysXR
    /\ values_sorted \in BOOLEAN
    /\ values_sorted =>
           IF Len(data.dims) = 1 THEN IsSorted(data.values)
           ELSE \A v \in Slices(data.values, GetAxisNum(data.dims, dim)) :
                   IsSorted(v)
    /\ old_style = FALSE
    /\ pc = "xr_call"
    /\ dims = <<>>
    /\ coords = <<>>
    /\ data_dist = NoDataArray
    /\ nd_values = <<>>
    /\ nd_ndim = 0
    /\ axis = None
    /\ arg_values = <<>>
    /\ arg_weight = None
    /\ Idle1D
    /\ IdleND

NextXR ==
    \/ CallWeightedQuantile
    \/ Dispatch
    \/ ApplySlice
    \/ ApplyReturn
    \/ Convert
    \/ AssertQuantiles
    \/ Sort
    \/ CumulativeMidPoints
    \/ NormalizePositions
    \/ Interpolate
    \/ DirectReturn
    \/ WrapResult

SpecXR == InitXR /\ [][NextXR]_vars

\* ------------------------------------------------- properties of a 1-D call
Returned == pc = "returned"

\* the weights the call pairs with the caller's values
ArgWeights == IF arg_weight = None THEN Ones(Len(arg_values)) ELSE arg_weight

SameLength == Len(ArgWeights) = Len(arg_values)

PositiveTotal == Sum(ArgWeights) > 0

\* what a call on (v, w) can return, whatever order np.argsort gives to ties
Returns(v, w, vs) ==
    {Call1D(v, quantiles, w, vs, old_style, s).result : s \in ArgSorts(v)}

\* observations of equal value have equal weights
TiesShareWeight(v, w) ==
    \A i, j \in 1..Len(v) : v[i] = v[j] => w[i] = w[j]

\* the permutations of 1..n
Perms(n) == AscendingOrders([i \in 1..n |-> 0], 1..n)

\* C1 as claimed: a call on jointly permuted (values, weights) returns what
\* this call returned, also when equal values carry different weights.
C1_PermutationInvariance ==
    (Returned /\ ~values_sorted /\ SameLength /\ PositiveTotal) =>
        \A p \in Perms(Len(arg_values)) :
            Returns(Take(arg_values, p), Take(ArgWeights, p), FALSE) = {result}

\* an index array that puts the values of v in descending order
DescendingOrder(v) ==
    CHOOSE p \in AscendingOrders([i \in 1..Len(v) |-> 0 - v[i]], 1..Len(v)) :
        \A i \in 1..(Len(v) - 1) : v[p[i]] >= v[p[i + 1]]

\* where the results of jointly permuted inputs do agree: when observations of
\* equal value have equal weights.  Stated for the joint permutation into
\* descending order of value: with equal weights on equal values every joint
\* permutation of an input has the same descending arrangement, so any two of
\* them return the same as it does.
PermutationInvarianceUpToTies ==
    (Returned /\ ~values_sorted /\ SameLength /\ PositiveTotal
        /\ TiesShareWeight(arg_values, ArgWeights)) =>
        LET p == DescendingOrder(arg_values)
        IN  Returns(Take(arg_values, p), Take(ArgWeights, p), FALSE) = {result}

\* a returned call whose input was out of order and had a tie of equal weights
PermutationInvarianceUpToTies_Witness ==
    /\ Returned /\ ~values_sorted /\ SameLength /\ PositiveTotal
    /\ TiesShareWeight(arg_values, ArgWeights)
    /\ ~IsSorted(arg_values)
    /\ \E i, j \in 1..Len(arg_values) : i # j /\ arg_values[i] = arg_values[j]
    /\ \E i, j \in 1..Len(arg_values) : ArgWeights[i] # ArgWeights[j]
    /\ \E k \in 1..Len(quantiles) : result[k].d # 1

\* (v, w) with observation i replaced by two observations of half its weight
SplitValues(v, i) ==
    SubSeq(v, 1, i - 1) \o << v[i], v[i] >> \o SubSeq(v, i + 1, Len(v))

SplitWeights(w, i) ==
    SubSeq(w, 1, i - 1) \o << w[i] \div 2, w[i] \div 2 >> \o SubSeq(w, i + 1, Len(w))

Distinct(v) == \A i, j \in 1..Len(v) : v[i] = v[j] => i = j

\* C2 as claimed: with the default normalization, replacing one observation
\* (v, w) by (v, w/2), (v, w/2) leaves every returned quantile value unchanged.
C2_WeightDuplication ==
    (Returned /\ ~old_style /\ SameLength /\ PositiveTotal) =>
        \A i \in 1..Len(arg_values) :
            ArgWeights[i] % 2 = 0 =>
                Returns(SplitValues(arg_values, i), SplitWeights(ArgWeights, i),
                        values_sorted) = {result}

\* quantile qn/QDen is not strictly between the normalized positions of the
\* observations this call has sorted right before and right after its i-th
\* (0 and 1 where there is none)
OutsideNeighbours(i, qn) ==
    LET q == Quantile(qn)
        lower == IF i = 1 THEN FromInt(0) ELSE weighted_quantiles[i - 1]
        upper == IF i = Len(values) THEN FromInt(1)
                 ELSE weighted_quantiles[i + 1]
    IN  RatLe(q, lower) \/ RatGe(q, upper)

\* C2 amended: with the default normalization and the observations taken in
\* the order in which the call has sorted them, replacing one observation
\* (v, w) by (v, w/2), (v, w/2) in its place leaves the value returned for a
\* quantile unchanged when the quantile is not strictly between the normalized
\* positions of the observations sorted right before and right after the
\* replaced one (0 and 1 where there is none).
C2_WeightDuplicationOutsideNeighbours ==
    (Returned /\ ~old_style /\ SameLength /\ PositiveTotal) =>
        \A i \in 1..Len(values) :
            sample_weight[i] % 2 = 0 =>
                LET r == Call1D(SplitValues(values, i), quantiles,
                                SplitWeights(sample_weight, i), TRUE, FALSE,
                                << >>).result
                IN  \A k \in 1..Len(quantiles) :
                        OutsideNeighbours(i, quantiles[k]) => r[k] = result[k]

\* unsorted values with a tie of different weights; a positive weight is
\* halved and an interior quantile lies at or beyond a neighbour's position,
\* where the value returned is not the halved observation's
C2_Witness ==
    /\ Returned /\ ~old_style /\ SameLength /\ PositiveTotal
    /\ ~values_sorted
    /\ ~TiesShareWeight(arg_values, ArgWeights)
    /\ \E i \in 1..Len(values) : \E k \in 1..Len(quantiles) :
          /\ sample_weight[i] % 2 = 0
          /\ sample_weight[i] > 0
          /\ quantiles[k] \notin {0, QDen}
          /\ OutsideNeighbours(i, quantiles[k])
          /\ result[k] # FromInt(values[i])

\* v in ascending order, by insertion
RECURSIVE Insert(_, _)
Insert(x, s) ==
    IF s = <<>> THEN << x >>
    ELSE IF x <= s[1] THEN << x >> \o s
    ELSE << s[1] >> \o Insert(x, Tail(s))

RECURSIVE Ascending(_)
Ascending(v) == IF v = <<>> THEN <<>> ELSE Insert(v[1], Ascending(Tail(v)))

\* the unweighted, linearly interpolated percentile: the value at fractional
\* rank q * (n - 1) of the ascending values
Percentile(v, qn) ==
    LET n == Len(v)
        lo == (qn * (n - 1)) \div QDen
        rem == (qn * (n - 1)) % QDen
        asc == Ascending(v)
        a == asc[lo + 1]
        b == asc[IF lo + 2 <= n THEN lo + 2 ELSE n]
    IN  Norm(a * QDen + (b - a) * rem, QDen)

AllOnes == \A i \in 1..Len(ArgWeights) : ArgWeights[i] = 1

\* C3: with all weights 1 and old_style the call returns the unweighted
\* linearly interpolated percentile, the value at fractional rank q * (n - 1).
C3_UniformWeightEquivalence ==
    (Returned /\ old_style /\ SameLength /\ AllOnes) =>
        \A k \in 1..Len(quantiles) :
            result[k] = Percentile(arg_values, quantiles[k])

\* unsorted values with explicit unit weights and an interpolated median
C3_Witness ==
    /\ Returned /\ old_style /\ SameLength /\ AllOnes
    /\ arg_weight # None
    /\ ~IsSorted(arg_values)
    /\ \E k \in 1..Len(quantiles) : result[k].d # 1

\* a single value with old_style: the division 0/0 of line 212 leaves NaN
\* positions, and the call still returns the value
C3_WitnessSingle ==
    /\ Returned /\ old_style /\ AllOnes
    /\ Len(arg_values) = 1
    /\ IsNaN(weighted_quantiles[1])
    /\ result[1] = FromInt(arg_values[1])

Min(v) == CHOOSE x \in {v[i] : i \in 1..Len(v)} : \A i \in 1..Len(v) : x <= v[i]

Max(v) == CHOOSE x \in {v[i] : i \in 1..Len(v)} : \A i \in 1..Len(v) : x >= v[i]

\* the number of zero entries that w starts with
RECURSIVE LeadingZeros(_)
LeadingZeros(w) ==
    IF w = <<>> \/ w[1] # 0 THEN 0 ELSE 1 + LeadingZeros(Tail(w))

\* C4 as claimed: quantile 0 returns the minimum and quantile 1 the maximum
\* of the value set, zero weights allowed.
C4_BoundaryQuantiles ==
    (Returned /\ ~values_sorted /\ ~old_style /\ SameLength /\ PositiveTotal) =>
        \A k \in 1..Len(quantiles) :
            /\ quantiles[k] = 0 => result[k] = FromInt(Min(arg_values))
            /\ quantiles[k] = QDen => result[k] = FromInt(Max(arg_values))

\* what the call returns at the boundary: the maximum for quantile 1; for
\* quantile 0 the minimum when fewer than two zero-weight observations are
\* sorted ahead of the first observation of positive weight, and otherwise the
\* value of the last of them (np.interp takes the last of equal positions).
BoundaryQuantilesLeadingZeros ==
    (Returned /\ ~values_sorted /\ ~old_style /\ SameLength /\ PositiveTotal) =>
        \A k \in 1..Len(quantiles) :
            LET z == LeadingZeros(sample_weight)
            IN  /\ quantiles[k] = QDen => result[k] = FromInt(Max(arg_values))
                /\ (quantiles[k] = 0 /\ z < 2) =>
                       result[k] = FromInt(Min(arg_values))
                /\ (quantiles[k] = 0 /\ z >= 2) => result[k] = FromInt(values[z])

\* quantile 0 of unsorted values of which two of zero weight are sorted first:
\* the call returns the second value, not the minimum
BoundaryQuantilesLeadingZeros_Witness ==
    /\ Returned /\ ~values_sorted /\ ~old_style /\ SameLength /\ PositiveTotal
    /\ ~IsSorted(arg_values)
    /\ LeadingZeros(sample_weight) >= 2
    /\ \E k \in 1..Len(quantiles) :
          quantiles[k] = 0 /\ result[k] # FromInt(Min(arg_values))

\* quantile 0 with one zero weight sorted first, and quantile 1 with a zero
\* weight sorted last
BoundaryQuantilesLeadingZeros_WitnessMinimum ==
    /\ Returned /\ ~values_sorted /\ ~old_style /\ SameLength /\ PositiveTotal
    /\ \E k \in 1..Len(quantiles) : quantiles[k] = 0
    /\ ~IsSorted(arg_values)
    /\ LeadingZeros(sample_weight) = 1
    /\ Min(arg_values) # Max(arg_values)

BoundaryQuantilesLeadingZeros_WitnessMaximum ==
    /\ Returned /\ ~values_sorted /\ ~old_style /\ SameLength /\ PositiveTotal
    /\ \E k \in 1..Len(quantiles) : quantiles[k] = QDen
    /\ ~IsSorted(arg_values)
    /\ Last(sample_weight) = 0
    /\ Min(arg_values) # Max(arg_values)

\* C5: of two quantiles of a call, the larger one is not given a smaller
\* value than the other.
C5_Monotonicity ==
    (Returned /\ ~values_sorted /\ SameLength /\ PositiveTotal) =>
        \A k, m \in 1..Len(quantiles) :
            quantiles[k] <= quantiles[m] => RatLe(result[k], result[m])

\* unsorted tied values with a zero weight; the value returned for an interior
\* quantile is an interpolated one, strictly between those for 0 and 1
C5_Witness ==
    /\ Returned /\ ~values_sorted /\ SameLength /\ PositiveTotal
    /\ ~IsSorted(arg_values)
    /\ ~Distinct(arg_values)
    /\ \E i \in 1..Len(ArgWeights) : ArgWeights[i] = 0
    /\ \E j, k, m \in 1..Len(quantiles) :
          /\ quantiles[j] < quantiles[k]
          /\ quantiles[k] < quantiles[m]
          /\ RatLt(result[j], result[k])
          /\ RatLt(result[k], result[m])
          /\ result[k].d # 1

\* every quantile asked for is in [0, 1]
InUnitInterval == \A k \in 1..Len(quantiles) : quantiles[k] \in 0..QDen

\* C6 as claimed: a call with a total weight of 0 never returns.
C6_DegenerateWeightsRaise ==
    (SameLength /\ Sum(ArgWeights) = 0 /\ InUnitInterval) =>
        ~Returned

\* C7 as claimed: a call whose weights differ in length from the values
\* fails before the sort step and never returns.
C7_LengthMismatchRaises ==
    ~SameLength => (~Returned /\ sorter = <<>>)

\* C8: a quantile outside [0, 1] stops the call at the assertion of line 198,
\* before anything is sorted, summed, normalized or interpolated; quantiles
\* all within [0, 1] never fail the assertion.
C8_InvalidQuantile ==
    /\ ~InUnitInterval =>
           /\ pc \in {"convert", "assert", "raised"}
           /\ pc = "raised" => error = "AssertionError"
           /\ sorter = <<>>
           /\ weighted_quantiles = <<>>
           /\ result = <<>>
    /\ InUnitInterval => error # "AssertionError"

\* the assertion has failed on a second quantile above 1, the first being fine,
\* for values that were still to be sorted
C8_Witness ==
    /\ pc = "raised"
    /\ error = "AssertionError"
    /\ Len(quantiles) = 2
    /\ quantiles[1] \in 0..QDen
    /\ quantiles[2] > QDen
    /\ ~values_sorted
    /\ ~IsSorted(arg_values)

\* ------------------------------------------- properties of weighted_quantile
\* what weighted_quantile_1d can return for the 1-D array v, with the
\* quantiles, the weights and the flags of this call
ReturnsOf(v) ==
    {Call1D(v, quantiles, arg_weight, values_sorted, old_style, s).result :
        s \in ArgSorts(v)}

Column(a, j) == Array([i \in 1..Len(a) |-> a[i][j]])

\* C9: for a 2-D array the result has len(quantiles) entries along axis and
\* keeps the other axis, and each of its slices along axis is what
\* weighted_quantile_1d returns for the slice of the array at the same place;
\* for a 1-D array the result is what weighted_quantile_1d returns for it.
C9_AxisBatching ==
    (pc = "nd_returned" /\ entry = "weighted_quantile") =>
        IF nd_ndim = 1
        THEN nd_result \in ReturnsOf(nd_values)
        ELSE IF axis[1] = 0
        THEN /\ Len(nd_result) = Len(quantiles)
             /\ \A k \in 1..Len(nd_result) :
                   Len(nd_result[k]) = Len(nd_values[1])
             /\ \A j \in 1..Len(nd_values[1]) :
                   Column(nd_result, j) \in ReturnsOf(Column(nd_values, j))
        ELSE /\ Len(nd_result) = Len(nd_values)
             /\ \A i \in 1..Len(nd_values) :
                   /\ Len(nd_result[i]) = Len(quantiles)
                   /\ nd_result[i] \in ReturnsOf(nd_values[i])

\* two columns of different values, weighted along axis 0 with two different
\* weights for two quantiles: the result is not symmetric
C9_Witness ==
    /\ pc = "nd_returned" /\ entry = "weighted_quantile"
    /\ nd_ndim = 2
    /\ axis = << 0 >>
    /\ Len(nd_values) = 2
    /\ Len(nd_values[1]) = 2
    /\ Len(quantiles) = 2
    /\ arg_weight # None
    /\ arg_weight[1] # arg_weight[2]
    /\ nd_result # Transpose(nd_result)
    /\ ~IsSorted(Column(nd_values, 1))

\* ---------------------------------------- properties of weighted_quantile_xr
\* the number of positions of the data along dim
SizeAlongDim ==
    IF GetAxisNum(data.dims, dim) = 0 THEN Len(data.values)
    ELSE Len(data.values[1])

\* C10: the weights handed to weighted_quantile are as many as the data has
\* positions along dim, and the i-th is the weight the series gives to the
\* i-th coordinate label of the data along dim.
C10_LabelAlignment ==
    (entry = "weighted_quantile_xr" /\ pc # "xr_call" /\ error # "KeyError") =>
        /\ Len(arg_weight) = SizeAlongDim
        /\ Len(arg_weight) = Len(data.coords[dim])
        /\ \A i \in 1..Len(arg_weight) :
              [label |-> data.coords[dim][i], weight |-> arg_weight[i]]
                  \in Range(weight_series)

\* a returned call whose series lists three labels, the data's two among them
\* in the opposite order and with different weights
C10_Witness ==
    /\ entry = "weighted_quantile_xr"
    /\ pc = "xr_returned"
    /\ dim = "y"
    /\ Len(weight_series) = 3
    /\ weight_series[1].label = data.coords[dim][2]
    /\ weight_series[3].label = data.coords[dim][1]
    /\ weight_series[1].weight # weight_series[3].weight
    /\ data_dist.dims = << "x", "quantile" >>

====
